---- MODULE Spec2Model ----
(***************************************************************************)
(* Model of the document-translation front end (src/app.py): the File      *)
(* Guard, the signed-URL helper and the batch orchestrator that drives     *)
(* every (document, target language) task through upload, translation,     *)
(* download, cleanup and packaging, together with the Streamlit session    *)
(* state that outlives one script run; of the accounts of the secrets     *)
(* file and their permissions in blob storage (src/utils/auth_manager.py,  *)
(* src/utils/permission_manager.py); and of the login page                 *)
(* (src/modules/login_page.py).                                            *)
(*                                                                         *)
(* Strings are sequences of one-character strings, so that splitting,      *)
(* case conversion, concatenation and prefix matching are computed as the  *)
(* Python code computes them.                                              *)
(***************************************************************************)
EXTENDS Integers, Sequences, FiniteSets, TLC

\* ------------------------------------------------------------------ bounds
\* most documents the user uploads at once
MaxDocs == 2
\* most target languages the user selects at once
MaxLangs == 2
\* most batch ids (uuid4 values) drawn in one session
MaxBatch == 1
\* most times the start button is pressed in one session
MaxStarts == 2
\* most times the user changes the uploader or the language selection after
\* the first press of the start button
MaxEdits == 1
\* most environment failures (exceptions of the SDK calls, failed or
\* output-less translations) in one session
MaxFaults == 1
\* latest clock reading, in minutes, at which a URL is signed
MaxNow == 2
\* longest lifetime, in hours, asked of a signed URL
MaxExpiryHours == 2
\* most AuthManager calls in one session
MaxCalls == 2
\* most set_user_permissions calls running at the same time
MaxWriters == 2
\* most times the login form is submitted in one session
MaxSubmits == 2
\* the value at which the counters of cookie reads and reruns stop counting
\* and the counter of script runs starts again from 0
MaxCount == 2

\* ----------------------------------------------------------------- strings
Range(s) == {s[i] : i \in 1..Len(s)}

LowerCase == <<"a","b","c","d","e","f","g","h","i","j","k","l","m",
               "n","o","p","q","r","s","t","u","v","w","x","y","z">>

UpperCase == <<"A","B","C","D","E","F","G","H","I","J","K","L","M",
               "N","O","P","Q","R","S","T","U","V","W","X","Y","Z">>

Digits == <<"0","1","2","3","4","5","6","7","8","9">>

IndexOf(seq, c) == CHOOSE i \in 1..Len(seq) : seq[i] = c

\* code point of a character (ASCII), the order blob names are listed in
Ord(c) ==
  IF c \in Range(LowerCase) THEN 96 + IndexOf(LowerCase, c)
  ELSE IF c \in Range(UpperCase) THEN 64 + IndexOf(UpperCase, c)
  ELSE IF c \in Range(Digits) THEN 47 + IndexOf(Digits, c)
  ELSE IF c = "-" THEN 45
  ELSE IF c = "." THEN 46
  ELSE 95

\* str.upper()
CharUpper(c) == IF c \in Range(LowerCase) THEN UpperCase[IndexOf(LowerCase, c)] ELSE c

StrUpper(s) == [i \in 1..Len(s) |-> CharUpper(s[i])]

\* str.lower()
CharLower(c) == IF c \in Range(UpperCase) THEN LowerCase[IndexOf(UpperCase, c)] ELSE c

StrLower(s) == [i \in 1..Len(s) |-> CharLower(s[i])]

\* position of the last "." of s, 0 when there is none
LastDot(s) ==
  IF \E i \in 1..Len(s) : s[i] = "."
  THEN CHOOSE i \in 1..Len(s) : s[i] = "." /\ \A j \in (i+1)..Len(s) : s[j] # "."
  ELSE 0

\* name.split('.')[-1]
LastSegment(s) == SubSeq(s, LastDot(s) + 1, Len(s))

\* os.path.splitext: the extension starts at the last dot, unless only dots
\* precede that dot
SplitextAt(s) ==
  IF LastDot(s) > 0 /\ \E j \in 1..(LastDot(s) - 1) : s[j] # "."
  THEN LastDot(s)
  ELSE Len(s) + 1

Splitext(s) == <<SubSeq(s, 1, SplitextAt(s) - 1), SubSeq(s, SplitextAt(s), Len(s))>>

\* str.startswith
StartsWith(s, p) == Len(p) <= Len(s) /\ SubSeq(s, 1, Len(p)) = p

\* s < t in the lexicographic order of code points
RECURSIVE StrLess(_, _)
StrLess(s, t) ==
  IF t = <<>> THEN FALSE
  ELSE IF s = <<>> THEN TRUE
  ELSE IF Ord(Head(s)) < Ord(Head(t)) THEN TRUE
  ELSE IF Ord(Head(s)) > Ord(Head(t)) THEN FALSE
  ELSE StrLess(Tail(s), Tail(t))

\* the names of a set in listing order
RECURSIVE SortNames(_)
SortNames(S) ==
  IF S = {} THEN <<>>
  ELSE LET m == CHOOSE x \in S : \A y \in S \ {x} : StrLess(x, y)
       IN <<m>> \o SortNames(S \ {m})

\* ------------------------------------------------------------- documents
\* bytes values: an uploaded file (lang = <<>>), a translated document, or
\* an archive (zip = its entries, in the order written)
FileBytes(n) == [src |-> n, lang |-> <<>>, zip |-> <<>>]

\* what the translation service writes for a source with bytes b
TranslatedBytes(b, lang) == [src |-> b.src, lang |-> lang, zip |-> <<>>]

PdfName == <<"a", ".", "p", "d", "f">>

DocxName == <<"a", ".", "b", ".", "d", "o", "c", "x">>

LockedName == <<"c", ".", "P", "D", "F">>

\* an uploaded file whose name and bytes can be read
UploadedFile(name, data, pdf, zip) ==
  [name |-> name, data |-> data, attr |-> "ok", read |-> "ok", pdf |-> pdf, zip |-> zip]

\* the documents the user has at hand; a document is its name, its bytes,
\* whether reading its name (attr) and its bytes (read) works, and what the
\* PDF parser and the zip reader make of those bytes
Docs ==
  << UploadedFile(LockedName, FileBytes(4), "encrypted", "not_zip"),
     UploadedFile(DocxName,   FileBytes(3), "error",     "ooxml"),
     UploadedFile(PdfName,    FileBytes(1), "ok",        "not_zip"),
     UploadedFile(PdfName,    FileBytes(2), "ok",        "not_zip") >>

ZhHans == <<"z", "h", "-", "H", "a", "n", "s">>

ZhHant == <<"z", "h", "-", "H", "a", "n", "t">>

Ko == <<"k", "o">>

\* the language codes on offer (LANGUAGES.values())
LangCodes == <<Ko, ZhHans, ZhHant>>

\* the elements of cat at the positions I, in the order of cat
Pick(cat, I) ==
  [k \in 1..Cardinality(I) |->
     cat[CHOOSE i \in I : Cardinality({j \in I : j < i}) = k - 1]]

\* the selections of at most n elements of cat, in the order of cat
Selections(cat, n) ==
  {Pick(cat, I) : I \in {J \in SUBSET (1..Len(cat)) : Cardinality(J) <= n}}

\* what the uploader can hold
FileLists == Selections(Docs, MaxDocs)

\* what the multiselect can hold
LangLists == Selections(LangCodes, MaxLangs)

\* ------------------------------------------------------------ File Guard
\* uploaded_file.name.split('.')[-1].lower()
FileType(doc) == StrLower(LastSegment(doc.name))

PdfType == <<"p", "d", "f">>

OfficeTypes == { <<"d", "o", "c", "x">>, <<"p", "p", "t", "x">>, <<"x", "l", "s", "x">> }

\* whether is_drm_protected calls uploaded_file.getvalue()
GuardReadsBytes(doc) ==
  /\ doc.attr = "ok"
  /\ FileType(doc) \in {PdfType} \cup OfficeTypes

\* the extension compared without lower()
is_drm_protected_CaseSensitive(doc) ==
  IF doc.attr # "ok" THEN FALSE
  ELSE IF LastSegment(doc.name) = PdfType
  THEN doc.read # "ok" \/ doc.pdf \in {"encrypted", "error"}
  ELSE IF LastSegment(doc.name) \in OfficeTypes
  THEN doc.read # "ok" \/ doc.zip \in {"not_zip", "no_manifest", "error"}
  ELSE FALSE

\* is_drm_protected: the outer handler returns False when reading the name
\* raises; the inner handlers return True when reading or parsing the bytes
\* raises
is_drm_protected(doc) ==
  IF doc.attr # "ok" THEN FALSE
  ELSE IF FileType(doc) = PdfType
  THEN doc.read # "ok" \/ doc.pdf \in {"encrypted", "error"}
  ELSE IF FileType(doc) \in OfficeTypes
  THEN doc.read # "ok" \/ doc.zip \in {"not_zip", "no_manifest", "error"}
  ELSE FALSE

\* ----------------------------------------------------------------- naming
Underscore == <<"_">>

\* str(uuid.uuid4()) of the n-th id drawn: distinct strings of one length
UuidStr(n) == <<Digits[n + 1]>>

LANG_SUFFIX_OVERRIDE == (ZhHans :> <<"C", "N">>) @@ (ZhHant :> <<"T", "W">>)

\* the override table not consulted
LangSuffix_UpperOnly(target_lang) == StrUpper(target_lang)

\* LANG_SUFFIX_OVERRIDE.get(target_lang, target_lang.upper())
LangSuffix(target_lang) ==
  IF target_lang \in DOMAIN LANG_SUFFIX_OVERRIDE
  THEN LANG_SUFFIX_OVERRIDE[target_lang]
  ELSE StrUpper(target_lang)

\* f"{name_part}_{suffix}{ext_part}"
FinalFilename(original_filename, target_lang) ==
  Splitext(original_filename)[1] \o Underscore \o LangSuffix(target_lang)
    \o Splitext(original_filename)[2]

\* f"{batch_id}_{target_lang}_{original_filename}"
UniqueName(batch_id, target_lang, original_filename) ==
  UuidStr(batch_id) \o Underscore \o target_lang \o Underscore \o original_filename

TranslatedPrefix == <<"t", "r", "a", "n", "s", "l", "a", "t", "e", "d", "_">>

\* f"translated_{batch_id}_{target_lang}_{name_part}"
OutputPrefix(batch_id, target_lang, original_filename) ==
  TranslatedPrefix \o UuidStr(batch_id) \o Underscore \o target_lang \o Underscore
    \o Splitext(original_filename)[1]

\* ------------------------------------------------------------- signed URLs
\* a URL is its path and, after the "?", at most one SAS token; a token is
\* the set of permissions it grants
SentinelUrl == [path |-> <<"#">>, query |-> <<>>]

\* url.split('?')
UrlSplit(url) == <<url.path>> \o url.query

\* signing that succeeds without an account key
generate_sas_url_NeverFails(account_key, blob_name) ==
  IF blob_name # <<>>
  THEN [path |-> blob_name, query |-> << {"read"} >>]
  ELSE [path |-> <<>>, query |-> << {"write", "list", "read", "delete"} >>]

\* generate_sas_url(blob_service_client, CONTAINER_NAME, blob_name, no_viewer=True):
\* a blob SAS with read permission for a blob name, a container SAS with
\* write, list, read and delete without one, "#" when signing raises
generate_sas_url(account_key, blob_name) ==
  IF ~account_key THEN SentinelUrl
  ELSE IF blob_name # <<>>
  THEN [path |-> blob_name, query |-> << {"read"} >>]
  ELSE [path |-> <<>>, query |-> << {"write", "list", "read", "delete"} >>]

\* Times are minutes on the UTC clock.
\* timedelta(hours=expiry_hours); expiry_hours is <<>> when the caller leaves
\* it out and the default of 1 applies
ExpiryMinutes(expiry_hours) == 60 * (IF expiry_hours = <<>> THEN 1 ELSE expiry_hours[1])

\* a token whose validity starts at the call
SasToken_FromNow(now, blob_name, permission, expiry_hours) ==
  [scope |-> IF blob_name # <<>> THEN "blob" ELSE "container",
   permissions |-> IF blob_name # <<>> THEN {"read"} ELSE {"write", "list", "read", "delete"},
   start |-> now,
   expiry |-> now + ExpiryMinutes(expiry_hours)]

\* the sas_token of generate_sas_url called at clock reading now:
\* generate_blob_sas(permission=BlobSasPermissions(read=True), start, expiry)
\* for a blob name, generate_container_sas(permission=ContainerSasPermissions(
\* write, list, read, delete), start, expiry) without one; the permission
\* argument is not read
SasToken(now, blob_name, permission, expiry_hours) ==
  [scope |-> IF blob_name # <<>> THEN "blob" ELSE "container",
   permissions |-> IF blob_name # <<>> THEN {"read"} ELSE {"write", "list", "read", "delete"},
   start |-> now - 15,
   expiry |-> now + ExpiryMinutes(expiry_hours)]

\* generate_sas_url with all the arguments that reach the token: the URL of
\* generate_sas_url(account_key, blob_name) carrying the whole token
SignedUrl(call) ==
  LET url == generate_sas_url(call.account_key, call.blob_name)
  IN IF url = SentinelUrl THEN url
     ELSE [path |-> url.path,
           query |-> <<SasToken(call.now, call.blob_name, call.permission,
                                call.expiry_hours)>>]

\* ------------------------------------------------------------- blob store
BlobNames(c) == {b.name : b \in c}

BlobData(c, name) == (CHOOSE b \in c : b.name = name).data

\* an upload that leaves a blob of that name in place
UploadBlob_NoOverwrite(c, name, data) == c \cup {[name |-> name, data |-> data]}

\* upload_blob(data, overwrite=True)
UploadBlob(c, name, data) == {b \in c : b.name # name} \cup {[name |-> name, data |-> data]}

\* delete_blob
DeleteBlob(c, name) == {b \in c : b.name # name}

\* list(container_client.list_blobs(name_starts_with=prefix))
list_blobs(c, prefix) == SortNames({n \in BlobNames(c) : StartsWith(n, prefix)})

\* ---------------------------------------------------------------- archive
\* "translated_files_{timestamp}.zip"; the timestamp is left out
ZipName == <<"t", "r", "a", "n", "s", "l", "a", "t", "e", "d", "_",
             "f", "i", "l", "e", "s", ".", "z", "i", "p">>

\* zipfile.ZipFile(zip_buffer, "w") with one writestr per result
MakeZip(res) ==
  [src |-> 0, lang |-> <<>>,
   zip |-> [i \in 1..Len(res) |-> [filename |-> res[i].filename, data |-> res[i].data]]]

\* ZipFile.namelist()
ZipNamelist(z) == [i \in 1..Len(z.zip) |-> z.zip[i].filename]

\* ZipFile.read(name): the entry written last under that name
ZipRead(z, name) ==
  LET last == CHOOSE i \in 1..Len(z.zip) :
                /\ z.zip[i].filename = name
                /\ \A j \in (i+1)..Len(z.zip) : z.zip[j].filename # name
  IN z.zip[last].data

\* -------------------------------------------------------------------- state
VARIABLES
  secrets,            \* which credentials are configured
  uploaded_files,     \* the uploader's documents
  target_lang_codes,  \* the selected language codes
  processing_state,   \* st.session_state.processing_state
  current_batch_id,   \* st.session_state.current_batch_id, 0 when the key is absent
  uuids,              \* uuid4 values drawn so far
  container,          \* the blobs of the container
  container_exists,   \* whether the container has been created
  notice,             \* what the last script run shows
  download_button,    \* the download button on the page: <<>> or its one record
  outcomes,           \* how each batch run of the session ended, in order
  pc,                 \* position of the running script, "idle" between runs
  di,                 \* index of uploaded_file in uploaded_files
  li,                 \* index of target_lang in target_lang_codes
  results,
  errors,
  drm_reported,       \* documents reported as DRM protected in this run
  total_tasks,
  completed_tasks,
  file_content,
  source_url,
  target_output_url,
  status,             \* doc.status of the translation result
  success,
  output_blobs,
  blob_data,
  attempted,          \* tasks of this run whose try block was entered
  uploads,            \* upload_blob calls that returned in this run
  requests,           \* begin_translation calls of this run
  deleted,            \* blob names the current task has deleted
  starts,
  edits,
  faults,
  guard_doc,          \* the document handed to the File Guard on its own
  guard_result,       \* what the File Guard returned for it: "none" before the call
  guard_read,         \* whether that call read the document's bytes
  sas_call,           \* the arguments of a generate_sas_url call on its own
  sas_url,            \* what that call returned: <<>> before the call
  has_manager,        \* whether AuthManager was given a connection string
  permissions_json,   \* the document of blob permissions.json: its entries
  auth_return,        \* the last AuthManager call: its arguments and what it returned
  last_update,        \* arguments of the latest update that returned success: <<>> or one record
  auth_calls,
  auth_faults,        \* calls during which blob storage failed
  writers,            \* the set_user_permissions calls running at the same time
  cookies,            \* the browser's cookies
  login_form_defaults,  \* st.session_state.login_form_defaults: <<>> when absent
  cookies_checked,    \* st.session_state.cookies_checked: <<>> when absent
  is_logged_in,       \* st.session_state.is_logged_in
  user_info,          \* st.session_state.user_info: <<>> when absent
  login_message,      \* what the form shows below its button
  page,               \* "new", "rerun" (a run is due), "form" (waiting for the user) or "app"
  cookie_reads,       \* script runs that read the remember-me cookies
  cookie_reruns,      \* reruns asked for after a read found saved credentials
  page_runs,          \* script runs of the login page, modulo MaxCount
  submits

session == <<secrets, uploaded_files, target_lang_codes, current_batch_id, uuids>>

loopvars == <<di, li, results, errors, drm_reported, total_tasks, completed_tasks, file_content>>

taskvars == <<source_url, target_output_url, status, success, output_blobs, blob_data, deleted>>

history == <<attempted, uploads, requests>>

budget == <<starts, edits>>

guard == <<guard_doc, guard_result, guard_read>>

app == <<session, processing_state, container, container_exists, notice, download_button,
         outcomes, pc, loopvars, taskvars, history, budget, faults>>

signing == <<sas_call, sas_url>>

authvars == <<has_manager, permissions_json, auth_return, last_update, auth_calls, auth_faults>>

\* everything outside the translation page
loginvars == <<cookies, login_form_defaults, cookies_checked, is_logged_in, user_info,
               login_message, page, cookie_reads, cookie_reruns, page_runs, submits>>

aside == <<guard, signing, authvars, writers, loginvars>>

vars == <<app, aside>>

NoBytes == [src |-> 0, lang |-> <<>>, zip |-> <<>>]

ResetTask ==
  /\ source_url' = SentinelUrl
  /\ target_output_url' = SentinelUrl
  /\ status' = "none"
  /\ success' = FALSE
  /\ output_blobs' = <<>>
  /\ blob_data' = NoBytes
  /\ deleted' = {}

ResetLoop ==
  /\ di' = 0
  /\ li' = 0
  /\ results' = <<>>
  /\ errors' = <<>>
  /\ drm_reported' = {}
  /\ total_tasks' = 0
  /\ completed_tasks' = 0
  /\ file_content' = NoBytes

\* the session of the application before its first script run
InitApp ==
  /\ secrets \in [STORAGE_CONN_STR : BOOLEAN, account_key : BOOLEAN, TRANSLATOR_KEY : BOOLEAN]
  /\ uploaded_files = <<>>
  /\ target_lang_codes = <<Ko>>
  /\ processing_state = <<>>
  /\ current_batch_id = 0
  /\ uuids = 0
  /\ container = {}
  /\ container_exists \in BOOLEAN
  /\ notice = "empty"
  /\ download_button = <<>>
  /\ outcomes = <<>>
  /\ pc = "idle"
  /\ di = 0 /\ li = 0 /\ results = <<>> /\ errors = <<>> /\ drm_reported = {}
  /\ total_tasks = 0 /\ completed_tasks = 0 /\ file_content = NoBytes
  /\ source_url = SentinelUrl /\ target_output_url = SentinelUrl
  /\ status = "none" /\ success = FALSE /\ output_blobs = <<>> /\ blob_data = NoBytes
  /\ attempted = {} /\ uploads = {} /\ requests = {} /\ deleted = {}
  /\ starts = 0 /\ edits = 0 /\ faults = 0

\* no call of the File Guard on its own
GuardIdle ==
  /\ guard_doc = Docs[1]
  /\ guard_result = "none"
  /\ guard_read = FALSE

\* no call of generate_sas_url on its own
SigningIdle ==
  /\ sas_call = [account_key |-> TRUE, now |-> 0, blob_name |-> <<>>, permission |-> "r",
                 expiry_hours |-> <<>>]
  /\ sas_url = <<>>

\* the return value of no call
NoReturn ==
  [op |-> "none", email |-> <<>>, password |-> <<>>, permissions |-> <<>>, storage |-> "ok",
   ok |-> FALSE, user |-> <<>>, users |-> <<>>, message |-> "none"]

\* no call of AuthManager
AuthIdle ==
  /\ has_manager = TRUE
  /\ permissions_json = {}
  /\ auth_return = NoReturn
  /\ last_update = <<>>
  /\ auth_calls = 0
  /\ auth_faults = 0

\* a set_user_permissions call that has not started
NoCall == [pc |-> "start", email |-> <<>>, permissions |-> <<>>, all_perms |-> {}, ret |-> FALSE]

\* no set_user_permissions call has started
WritersIdle == writers = [w \in 1..MaxWriters |-> NoCall]

\* the login page not yet run
LoginIdle ==
  /\ cookies = [auth_email |-> <<>>, remember_email |-> <<>>, remember_password |-> <<>>]
  /\ login_form_defaults = <<>>
  /\ cookies_checked = <<>>
  /\ is_logged_in = FALSE
  /\ user_info = <<>>
  /\ login_message = "none"
  /\ page = "new"
  /\ cookie_reads = 0
  /\ cookie_reruns = 0
  /\ page_runs = 0
  /\ submits = 0

Init ==
  /\ InitApp
  /\ GuardIdle
  /\ SigningIdle
  /\ AuthIdle
  /\ WritersIdle
  /\ LoginIdle

\* ------------------------------------------------------- one script run
\* the validation of the language selection left out
LanguagesSelected_NoCheck(langs) == TRUE

\* "if not target_lang_codes" is false
LanguagesSelected(langs) == langs # <<>>

\* the batch id the run works with
BatchIdAfter(files, langs) ==
  IF files = <<>> THEN 0
  ELSE IF ~LanguagesSelected(langs) THEN current_batch_id
  ELSE IF current_batch_id = 0 THEN uuids + 1
  ELSE current_batch_id

\* the persisted state of that batch id is a success
SuccessStored(batch_id) ==
  /\ batch_id \in DOMAIN processing_state
  /\ processing_state[batch_id].status = "success"

\* the result display showing no download button
ResultDisplay_NoButton(files, langs, batch_id) == <<>>

\* the download button of the result display: shown when the script reaches
\* the display and the state of the batch id is a success
ResultDisplay(files, langs, batch_id) ==
  IF files # <<>> /\ LanguagesSelected(langs) /\ SuccessStored(batch_id)
  THEN << [data |-> processing_state[batch_id].data,
           file_name |-> processing_state[batch_id].filename,
           is_zip |-> processing_state[batch_id].is_zip] >>
  ELSE <<>>

\* the script from the uploader to the result display, and its last lines,
\* in a run with the start button not pressed
RunScript(files, langs) ==
  /\ uploaded_files' = files
  /\ target_lang_codes' = langs
  /\ current_batch_id' = BatchIdAfter(files, langs)
  /\ uuids' = IF BatchIdAfter(files, langs) > uuids THEN uuids + 1 ELSE uuids
  /\ uuids' <= MaxBatch
  /\ notice' = IF files = <<>> THEN "empty"
               ELSE IF ~LanguagesSelected(langs) THEN "select_language"
               ELSE IF SuccessStored(BatchIdAfter(files, langs)) THEN "download"
               ELSE "start_button"
  /\ download_button' = ResultDisplay(files, langs, BatchIdAfter(files, langs))
  /\ UNCHANGED <<secrets, processing_state, container, container_exists, outcomes, pc,
                 loopvars, taskvars, history, starts, faults, aside>>

\* a widget changes: changes after the first start are counted
Edit ==
  /\ starts = 0 \/ edits < MaxEdits
  /\ edits' = IF starts = 0 THEN edits ELSE edits + 1

\* the user changes the uploaded documents
SetFiles ==
  /\ pc = "idle"
  /\ Edit
  /\ \E files \in FileLists \ {uploaded_files} : RunScript(files, target_lang_codes)

\* the user changes the language selection
SetLangs ==
  /\ pc = "idle"
  /\ Edit
  /\ \E langs \in LangLists \ {target_lang_codes} : RunScript(uploaded_files, langs)

\* a run that changes no widget
Rerender ==
  /\ pc = "idle"
  /\ RunScript(uploaded_files, target_lang_codes)
  /\ UNCHANGED edits

\* ------------------------------------------------------------ batch run
uploaded_file == uploaded_files[di]

target_lang == target_lang_codes[li]

input_blob_name == UniqueName(current_batch_id, target_lang, uploaded_file.name)

output_prefix == OutputPrefix(current_batch_id, target_lang, uploaded_file.name)

\* the script run is over; its locals are gone
EndRun(shown) ==
  /\ pc' = "idle"
  /\ notice' = shown
  /\ outcomes' = Append(outcomes, shown)
  /\ ResetLoop
  /\ ResetTask

\* the previous state left in place
ClearedState_Kept(batch_id) == processing_state

\* "if current_state: del st.session_state.processing_state[batch_id]"
ClearedState(batch_id) ==
  [b \in DOMAIN processing_state \ {batch_id} |-> processing_state[b]]

\* "번역 시작" pressed: the run renders the result display, clears the
\* previous state of the batch id and builds the blob service client; the
\* script stops without a connection string
ClickStart ==
  /\ pc = "idle"
  /\ uploaded_files # <<>>
  /\ LanguagesSelected(target_lang_codes)
  /\ starts < MaxStarts
  /\ starts' = starts + 1
  /\ download_button' = ResultDisplay(uploaded_files, target_lang_codes, current_batch_id)
  /\ processing_state' = ClearedState(current_batch_id)
  /\ attempted' = {}
  /\ uploads' = {}
  /\ requests' = {}
  /\ IF secrets.STORAGE_CONN_STR
     THEN /\ pc' = "provision"
          /\ notice' = "spinner"
          /\ UNCHANGED <<loopvars, taskvars, outcomes>>
     ELSE EndRun("stopped")
  /\ UNCHANGED <<aside, session, container, container_exists, edits, faults>>

\* the batch-level handler storing nothing
BatchFatal_NoRecord(e) ==
  /\ EndRun("batch_error")
  /\ UNCHANGED <<processing_state, download_button>>

\* except Exception as e, outside the task loop
BatchFatal(e) ==
  /\ processing_state' = (current_batch_id :> [status |-> "failed", error |-> e]) @@ processing_state
  /\ EndRun("batch_error")
  /\ UNCHANGED download_button

\* container_client.exists(), create_container(), and the loop's locals
Provision ==
  /\ pc = "provision"
  /\ \/ /\ container_exists' = TRUE
        /\ results' = <<>>
        /\ errors' = <<>>
        /\ drm_reported' = {}
        /\ total_tasks' = Len(uploaded_files) * Len(target_lang_codes)
        /\ completed_tasks' = 0
        /\ di' = 1
        /\ pc' = "document"
        /\ UNCHANGED <<li, file_content, taskvars, processing_state, notice, download_button, outcomes, faults>>
     \/ /\ faults < MaxFaults
        /\ faults' = faults + 1
        /\ BatchFatal("container")
        /\ UNCHANGED container_exists
  /\ UNCHANGED <<aside, session, container, history, budget>>

\* the File Guard's verdict ignored
DocumentSkipped_Never(doc) == FALSE

\* "if is_drm_protected(uploaded_file)": the document is reported and skipped
DocumentSkipped(doc) == is_drm_protected(doc)

\* the head of "for uploaded_file in uploaded_files": the File Guard, then
\* the one read of the document
\* a protected document counted as one task
SkippedTasks_One(langs) == 1

\* completed_tasks += len(target_lang_codes): the tasks of a protected document
SkippedTasks(langs) == Len(langs)

NextDocument ==
  /\ pc = "document"
  /\ IF di > Len(uploaded_files)
     THEN /\ pc' = "finalize"
          /\ UNCHANGED <<loopvars, taskvars, processing_state, notice, download_button, outcomes, faults>>
     ELSE IF DocumentSkipped(uploaded_file)
     THEN IF total_tasks = 0
          THEN BatchFatal("division by zero") /\ UNCHANGED faults
          ELSE /\ drm_reported' = drm_reported \cup {di}
               /\ completed_tasks' = completed_tasks + SkippedTasks(target_lang_codes)
               /\ di' = di + 1
               /\ UNCHANGED <<pc, li, results, errors, total_tasks, file_content,
                              taskvars, processing_state, notice, download_button, outcomes, faults>>
     ELSE \/ /\ file_content' = uploaded_file.data
             /\ IF Len(target_lang_codes) > 0
                THEN li' = 1 /\ pc' = "upload" /\ UNCHANGED di
                ELSE di' = di + 1 /\ UNCHANGED <<li, pc>>
             /\ UNCHANGED <<results, errors, drm_reported, total_tasks, completed_tasks,
                            taskvars, processing_state, notice, download_button, outcomes, faults>>
          \/ /\ faults < MaxFaults
             /\ faults' = faults + 1
             /\ BatchFatal("read")
  /\ UNCHANGED <<aside, session, container, container_exists, history, budget>>

\* the exception of one task ends the task loop
TaskExcept_LeavesLoop(e) ==
  /\ errors' = Append(errors, [doc |-> di, lang |-> li, kind |-> "exception", msg |-> e])
  /\ pc' = "finalize"

\* except Exception as e, inside the task loop
TaskExcept(e) ==
  /\ errors' = Append(errors, [doc |-> di, lang |-> li, kind |-> "exception", msg |-> e])
  /\ pc' = "progress"

\* an SDK call of the current task raises
Raises(e) ==
  /\ faults < MaxFaults
  /\ faults' = faults + 1
  /\ TaskExcept(e)

\* blob_client.upload_blob(file_content, overwrite=True)
Upload ==
  /\ pc = "upload"
  /\ attempted' = attempted \cup {[doc |-> di, lang |-> li]}
  /\ \/ /\ container' = UploadBlob(container, input_blob_name, file_content)
        /\ uploads' = uploads \cup {[doc |-> di, lang |-> li, name |-> input_blob_name,
                                      replaced |-> input_blob_name \in BlobNames(container)]}
        /\ pc' = "sign"
        /\ UNCHANGED <<errors, faults>>
     \/ /\ Raises("upload")
        /\ UNCHANGED <<container, uploads>>
  /\ UNCHANGED <<aside, session, processing_state, container_exists, notice, download_button, outcomes, di, li, results,
                 drm_reported, total_tasks, completed_tasks, file_content, taskvars,
                 requests, budget>>

\* source_url, target_container_sas and target_output_url
Sign ==
  /\ pc = "sign"
  /\ LET sas == generate_sas_url(secrets.account_key, <<>>)
     IN /\ source_url' = generate_sas_url(secrets.account_key, input_blob_name)
        /\ IF Len(UrlSplit(sas)) >= 2
           THEN /\ target_output_url' = [path |-> output_prefix, query |-> <<UrlSplit(sas)[2]>>]
                /\ pc' = "translate"
                /\ UNCHANGED errors
           ELSE /\ TaskExcept("list index out of range")
                /\ UNCHANGED target_output_url
  /\ UNCHANGED <<aside, session, processing_state, container, container_exists, notice, download_button, outcomes, di, li,
                 results, drm_reported, total_tasks, completed_tasks, file_content,
                 status, success, output_blobs, blob_data, deleted, history, budget, faults>>

\* get_translation_client(), begin_translation and poller.result(): the
\* service reports Succeeded or Failed, or the call raises; a translation
\* that succeeded has written the target blob, unless the service wrote
\* nothing under the target URL
Translate ==
  /\ pc = "translate"
  /\ IF ~secrets.TRANSLATOR_KEY
     THEN /\ EndRun("stopped")
          /\ UNCHANGED <<container, requests, faults, download_button>>
     ELSE /\ requests' = requests \cup
                {[doc |-> di, lang |-> li, source_url |-> source_url,
                  target_url |-> target_output_url, language |-> target_lang]}
          /\ \/ /\ status' = "Succeeded"
                /\ container' = UploadBlob(container, target_output_url.path,
                                   TranslatedBytes(BlobData(container, source_url.path), target_lang))
                /\ pc' = "process"
                /\ UNCHANGED <<errors, faults>>
             \/ /\ faults < MaxFaults
                /\ faults' = faults + 1
                /\ status' \in {"Succeeded", "Failed"}
                /\ pc' = "process"
                /\ UNCHANGED <<container, errors>>
             \/ /\ Raises("translate")
                /\ UNCHANGED <<container, status>>
          /\ UNCHANGED <<notice, download_button, outcomes, di, li, results, drm_reported, total_tasks, completed_tasks,
                         file_content, source_url, target_output_url, success, output_blobs,
                         blob_data, deleted>>
  /\ UNCHANGED <<aside, session, processing_state, container_exists, attempted, uploads, budget>>

\* "for doc in result": a status other than Succeeded is recorded as an error
ProcessResult ==
  /\ pc = "process"
  /\ IF status # "Succeeded"
     THEN /\ success' = FALSE
          /\ errors' = Append(errors, [doc |-> di, lang |-> li, kind |-> "status", msg |-> status])
          /\ pc' = "progress"
     ELSE /\ success' = TRUE
          /\ pc' = "list"
          /\ UNCHANGED errors
  /\ UNCHANGED <<aside, session, processing_state, container, container_exists, notice, download_button, outcomes, di, li,
                 results, drm_reported, total_tasks, completed_tasks, file_content,
                 source_url, target_output_url, status, output_blobs, blob_data, deleted,
                 history, budget, faults>>

\* output_blobs = list(container_client.list_blobs(name_starts_with=output_prefix))
ListOutput ==
  /\ pc = "list"
  /\ \/ /\ output_blobs' = list_blobs(container, output_prefix)
        /\ pc' = IF list_blobs(container, output_prefix) # <<>> THEN "download" ELSE "delete_source"
        /\ UNCHANGED <<errors, faults>>
     \/ /\ Raises("list")
        /\ UNCHANGED output_blobs
  /\ UNCHANGED <<aside, session, processing_state, container, container_exists, notice, download_button, outcomes, di, li,
                 results, drm_reported, total_tasks, completed_tasks, file_content,
                 source_url, target_output_url, status, success, blob_data, deleted,
                 history, budget>>

\* result_blob = output_blobs[0]; download_blob().readall()
Download ==
  /\ pc = "download"
  /\ \/ /\ blob_data' = BlobData(container, output_blobs[1])
        /\ pc' = "delete_target"
        /\ UNCHANGED <<errors, faults>>
     \/ /\ Raises("download")
        /\ UNCHANGED blob_data
  /\ UNCHANGED <<aside, session, processing_state, container, container_exists, notice, download_button, outcomes, di, li,
                 results, drm_reported, total_tasks, completed_tasks, file_content,
                 source_url, target_output_url, status, success, output_blobs, deleted,
                 history, budget>>

\* container_client.delete_blob(result_blob.name), then results.append
DeleteTarget ==
  /\ pc = "delete_target"
  /\ \/ /\ container' = DeleteBlob(container, output_blobs[1])
        /\ deleted' = deleted \cup {output_blobs[1]}
        /\ results' = Append(results,
             [doc |-> di, lang |-> li,
              filename |-> FinalFilename(uploaded_file.name, target_lang),
              data |-> blob_data])
        /\ pc' = "delete_source"
        /\ UNCHANGED <<errors, faults>>
     \/ /\ Raises("delete_target")
        /\ UNCHANGED <<container, results, deleted>>
  /\ UNCHANGED <<aside, session, processing_state, container_exists, notice, download_button, outcomes, di, li,
                 drm_reported, total_tasks, completed_tasks, file_content,
                 source_url, target_output_url, status, success, output_blobs, blob_data,
                 history, budget>>

\* if success: blob_client.delete_blob()
DeleteSource ==
  /\ pc = "delete_source"
  /\ \/ /\ container' = DeleteBlob(container, input_blob_name)
        /\ deleted' = deleted \cup {input_blob_name}
        /\ pc' = "progress"
        /\ UNCHANGED <<errors, faults>>
     \/ /\ Raises("delete_source")
        /\ UNCHANGED <<container, deleted>>
  /\ UNCHANGED <<aside, session, processing_state, container_exists, notice, download_button, outcomes, di, li, results,
                 drm_reported, total_tasks, completed_tasks, file_content,
                 source_url, target_output_url, status, success, output_blobs, blob_data,
                 history, budget>>

\* completed_tasks += 1, and the next target language or the next document
Progress ==
  /\ pc = "progress"
  /\ completed_tasks' = completed_tasks + 1
  /\ IF li < Len(target_lang_codes)
     THEN li' = li + 1 /\ pc' = "upload" /\ UNCHANGED di
     ELSE di' = di + 1 /\ pc' = "document" /\ UNCHANGED li
  /\ ResetTask
  /\ UNCHANGED <<aside, session, processing_state, container, container_exists, notice, download_button, outcomes,
                 results, errors, drm_reported, total_tasks, file_content,
                 history, budget, faults>>

\* a single result archived like several
Artifact_AlwaysZip(res) ==
  [status |-> "success", data |-> MakeZip(res), filename |-> ZipName, is_zip |-> TRUE]

\* the artifact of a non-empty results list
Artifact(res) ==
  IF Len(res) = 1
  THEN [status |-> "success", data |-> res[1].data, filename |-> res[1].filename, is_zip |-> FALSE]
  ELSE [status |-> "success", data |-> MakeZip(res), filename |-> ZipName, is_zip |-> TRUE]

\* "if results": the artifact is stored under the batch id and the script
\* reruns, which shows the download button; otherwise an error is shown
Finalize ==
  /\ pc = "finalize"
  /\ IF results # <<>>
     THEN /\ processing_state' = (current_batch_id :> Artifact(results)) @@ processing_state
          /\ download_button' = << [data |-> Artifact(results).data,
                                    file_name |-> Artifact(results).filename,
                                    is_zip |-> Artifact(results).is_zip] >>
          /\ EndRun("download")
     ELSE /\ EndRun("no_results")
          /\ UNCHANGED <<processing_state, download_button>>
  /\ UNCHANGED <<aside, session, container, container_exists, history, budget, faults>>

\* the steps of a running batch
BatchStep ==
  \/ Provision
  \/ NextDocument
  \/ Upload
  \/ Sign
  \/ Translate
  \/ ProcessResult
  \/ ListOutput
  \/ Download
  \/ DeleteTarget
  \/ DeleteSource
  \/ Progress
  \/ Finalize

\* a session up to the end of its first batch run
FirstSetFiles == starts = 0 /\ SetFiles

FirstSetLangs == starts = 0 /\ SetLangs

FirstClickStart == starts = 0 /\ ClickStart

Next ==
  \/ FirstSetFiles
  \/ FirstSetLangs
  \/ Rerender
  \/ FirstClickStart
  \/ BatchStep

Spec == Init /\ [][Next]_vars

\* a session of several batch runs, each of one document and one language
OneTask ==
  /\ Len(uploaded_files') <= 1
  /\ Len(target_lang_codes') <= 1

SessionSetFiles == SetFiles /\ OneTask

SessionSetLangs == SetLangs /\ OneTask

SessionNext ==
  \/ SessionSetFiles
  \/ SessionSetLangs
  \/ Rerender
  \/ ClickStart
  \/ BatchStep

SpecSession == Init /\ [][SessionNext]_vars

\* ------------------------------------------------- the File Guard on its own
PptxName == <<"d", ".", "p", "p", "t", "x">>

XlsxName == <<"e", ".", "x", "l", "s", "x">>

TxtName == <<"f", ".", "t", "x", "t">>

\* a name without a dot
BareName == <<"p", "d", "f">>

GuardNames == {PdfName, LockedName, DocxName, PptxName, XlsxName, TxtName, BareName}

\* the arguments of is_drm_protected: every name with every outcome of
\* reading the name, reading the bytes, opening them as a PDF and as a zip
GuardDocs ==
  [name : GuardNames, data : {FileBytes(1)}, attr : {"ok", "raises"}, read : {"ok", "raises"},
   pdf : {"ok", "encrypted", "error"}, zip : {"ooxml", "no_manifest", "not_zip", "error"}]

InitGuard ==
  /\ InitApp
  /\ secrets = [STORAGE_CONN_STR |-> TRUE, account_key |-> TRUE, TRANSLATOR_KEY |-> TRUE]
  /\ container_exists
  /\ guard_doc \in GuardDocs
  /\ guard_result = "none"
  /\ guard_read = FALSE
  /\ SigningIdle
  /\ AuthIdle
  /\ WritersIdle
  /\ LoginIdle

\* one call of is_drm_protected(guard_doc)
Classify ==
  /\ guard_result = "none"
  /\ guard_result' = IF is_drm_protected(guard_doc) THEN "True" ELSE "False"
  /\ guard_read' = GuardReadsBytes(guard_doc)
  /\ UNCHANGED <<guard_doc, app, signing, authvars, writers, loginvars>>

NextGuard == Classify

SpecGuard == InitGuard /\ [][NextGuard]_vars

\* --------------------------------------------- the signing helper on its own
\* the translation page at rest with every credential configured
AppIdle ==
  /\ InitApp
  /\ secrets = [STORAGE_CONN_STR |-> TRUE, account_key |-> TRUE, TRANSLATOR_KEY |-> TRUE]
  /\ container_exists

\* the arguments of generate_sas_url: with and without an account key, a blob
\* name, a permission string and a lifetime
SasCalls ==
  [account_key : BOOLEAN, now : 0..MaxNow, blob_name : {<<>>, PdfName, DocxName},
   permission : {"r", "w", "rwdl"},
   expiry_hours : {<<>>} \cup {<<h>> : h \in 1..MaxExpiryHours}]

InitSas ==
  /\ AppIdle
  /\ GuardIdle
  /\ sas_call \in SasCalls
  /\ sas_url = <<>>
  /\ AuthIdle
  /\ WritersIdle
  /\ LoginIdle

\* one call of generate_sas_url with the arguments sas_call
SignUrl ==
  /\ sas_url = <<>>
  /\ sas_url' = <<SignedUrl(sas_call)>>
  /\ UNCHANGED <<sas_call, app, guard, authvars, writers, loginvars>>

NextSas == SignUrl

SpecSas == InitSas /\ [][NextSas]_vars

\* ------------------------------------------------ accounts and permissions
\* str.strip() for blanks
RECURSIVE Strip(_)
Strip(s) ==
  IF s = <<>> THEN s
  ELSE IF Head(s) = " " THEN Strip(Tail(s))
  ELSE IF s[Len(s)] = " " THEN Strip(SubSeq(s, 1, Len(s) - 1))
  ELSE s

\* str(n) of a natural number
RECURSIVE IntStr(_)
IntStr(n) == IF n < 10 THEN <<Digits[n + 1]>> ELSE IntStr(n \div 10) \o <<Digits[(n % 10) + 1]>>

\* str(v) of a value of the secrets file: a string or an integer
PyStr(v) == IF v.type = "int" THEN IntStr(v.value) ELSE v.value

AnnEmail == <<"a", "@", "x">>

BobEmail == <<"b", "@", "x">>

\* st.secrets["auth_users"] in iteration order: two records share an address
\* up to letter case and blanks, one password is an integer
Users ==
  << [id |-> "ann", email |-> <<"A", "@", "x">>,
      password |-> [type |-> "str", value |-> <<"p", "1">>], permissions |-> <<"translate">>],
     [id |-> "ann2", email |-> <<" ", "a", "@", "x", " ">>,
      password |-> [type |-> "str", value |-> <<"p", "2">>], permissions |-> <<"admin">>],
     [id |-> "bob", email |-> BobEmail,
      password |-> [type |-> "int", value |-> 12], permissions |-> <<>>] >>

\* all_perms.get(email, default)
DictGet(all_perms, email, default) ==
  IF \E e \in all_perms : e.email = email
  THEN (CHOOSE e \in all_perms : e.email = email).permissions
  ELSE default

\* all_perms[email] = permissions
DictSet(all_perms, email, permissions) ==
  {e \in all_perms : e.email # email} \cup {[email |-> email, permissions |-> permissions]}

\* PermissionManager.load_permissions: the document, {} when the blob is
\* missing or reading it raises
load_permissions(storage) == IF storage \in {"load_fails", "down"} THEN {} ELSE permissions_json

\* PermissionManager.get_user_permissions
get_user_permissions(storage, email) == DictGet(load_permissions(storage), email, <<>>)

\* AuthManager._get_effective_permissions
get_effective_permissions(storage, email, default_permissions) ==
  IF has_manager /\ get_user_permissions(storage, email) # <<>>
  THEN get_user_permissions(storage, email)
  ELSE default_permissions

\* the stored address as the lookups compare it
StoredEmail(i) == StrLower(Strip(Users[i].email))

\* the user_info of record i
UserInfo(storage, i) ==
  [id |-> Users[i].id, email |-> Users[i].email,
   permissions |-> get_effective_permissions(storage, StoredEmail(i), Users[i].permissions)]

\* a login that tries every record with the address
RECURSIVE LoginFrom_AnyRecord(_, _, _, _)
LoginFrom_AnyRecord(i, storage, input_email, password) ==
  IF i > Len(Users)
  THEN [ok |-> FALSE, user |-> <<>>, message |-> "unregistered"]
  ELSE IF StoredEmail(i) = input_email /\ PyStr(Users[i].password) = password
  THEN [ok |-> TRUE, user |-> <<UserInfo(storage, i)>>, message |-> "welcome"]
  ELSE IF StoredEmail(i) = input_email
          /\ \A k \in (i+1)..Len(Users) :
               ~(StoredEmail(k) = input_email /\ PyStr(Users[k].password) = password)
  THEN [ok |-> FALSE, user |-> <<>>, message |-> "wrong_password"]
  ELSE LoginFrom_AnyRecord(i + 1, storage, input_email, password)

\* the loop of AuthManager.login from record i on; the password typed into
\* the form is a string, str(password) is the password
RECURSIVE LoginFrom(_, _, _, _)
LoginFrom(i, storage, input_email, password) ==
  IF i > Len(Users)
  THEN [ok |-> FALSE, user |-> <<>>, message |-> "unregistered"]
  ELSE IF StoredEmail(i) = input_email
  THEN IF PyStr(Users[i].password) = password
       THEN [ok |-> TRUE, user |-> <<UserInfo(storage, i)>>, message |-> "welcome"]
       ELSE [ok |-> FALSE, user |-> <<>>, message |-> "wrong_password"]
  ELSE LoginFrom(i + 1, storage, input_email, password)

\* AuthManager.login
login(storage, email, password) == LoginFrom(1, storage, StrLower(Strip(email)), password)

\* AuthManager.get_user_by_email: <<>> for None
RECURSIVE GetFrom(_, _, _)
GetFrom(i, storage, input_email) ==
  IF i > Len(Users) THEN <<>>
  ELSE IF StoredEmail(i) = input_email THEN <<UserInfo(storage, i)>>
  ELSE GetFrom(i + 1, storage, input_email)

get_user_by_email(storage, email) == GetFrom(1, storage, StrLower(Strip(email)))

\* AuthManager.get_all_users
get_all_users(storage) == [i \in 1..Len(Users) |-> UserInfo(storage, i)]

\* PermissionManager.set_user_permissions: what it saves
set_user_permissions(storage, email, permissions) ==
  DictSet(load_permissions(storage), email, permissions)

\* what the calls are made with
EmailInputs == {AnnEmail, <<" ", "A", "@", "X", " ">>, BobEmail, <<"c", "@", "x">>}

PasswordInputs == {<<"p", "1">>, <<"P", "1">>, <<"p", "2">>, <<"1", "2">>}

UpdateEmails == {AnnEmail, <<"A", "@", "x">>, BobEmail}

PermissionLists == {<<>>, <<"admin">>, <<"translate", "admin">>}

\* the outcomes of blob storage during one call that only reads
ReadOutcomes == IF auth_faults < MaxFaults THEN {"ok", "load_fails"} ELSE {"ok"}

\* and during one call that reads and writes
WriteOutcomes ==
  IF auth_faults < MaxFaults THEN {"ok", "load_fails", "save_fails", "down"} ELSE {"ok"}

InitAuth ==
  /\ AppIdle
  /\ GuardIdle
  /\ SigningIdle
  /\ has_manager \in BOOLEAN
  /\ permissions_json = {}
  /\ auth_return = NoReturn
  /\ last_update = <<>>
  /\ auth_calls = 0
  /\ auth_faults = 0
  /\ WritersIdle
  /\ LoginIdle

\* what every call does besides returning
Called(storage) ==
  /\ auth_calls < MaxCalls
  /\ auth_calls' = auth_calls + 1
  /\ auth_faults' = IF storage = "ok" THEN auth_faults ELSE auth_faults + 1
  /\ UNCHANGED <<has_manager, app, guard, signing, writers, loginvars>>

Login ==
  \E email \in EmailInputs, password \in PasswordInputs, storage \in ReadOutcomes :
    /\ Called(storage)
    /\ auth_return' =
         [NoReturn EXCEPT !.op = "login", !.email = email, !.password = password,
                          !.storage = storage,
                          !.ok = login(storage, email, password).ok,
                          !.user = login(storage, email, password).user,
                          !.message = login(storage, email, password).message]
    /\ UNCHANGED <<permissions_json, last_update>>

GetUserByEmail ==
  \E email \in EmailInputs, storage \in ReadOutcomes :
    /\ Called(storage)
    /\ auth_return' =
         [NoReturn EXCEPT !.op = "get_user_by_email", !.email = email, !.storage = storage,
                          !.ok = get_user_by_email(storage, email) # <<>>,
                          !.user = get_user_by_email(storage, email)]
    /\ UNCHANGED <<permissions_json, last_update>>

GetAllUsers ==
  \E storage \in ReadOutcomes :
    /\ Called(storage)
    /\ auth_return' =
         [NoReturn EXCEPT !.op = "get_all_users", !.storage = storage, !.ok = TRUE,
                          !.users = get_all_users(storage)]
    /\ UNCHANGED <<permissions_json, last_update>>

\* AuthManager.update_user_permissions
UpdateUserPermissions ==
  \E email \in UpdateEmails, permissions \in PermissionLists, storage \in WriteOutcomes :
    LET saved == has_manager /\ storage \notin {"save_fails", "down"}
    IN /\ Called(storage)
       /\ permissions_json' =
            IF saved THEN set_user_permissions(storage, email, permissions)
            ELSE permissions_json
       /\ auth_return' =
            [NoReturn EXCEPT !.op = "update_user_permissions", !.email = email,
                             !.permissions = permissions, !.storage = storage,
                             !.ok = saved,
                             !.message = IF ~has_manager THEN "no_manager"
                                         ELSE IF saved THEN "updated" ELSE "save_error"]
       /\ last_update' =
            IF saved THEN <<[email |-> email, permissions |-> permissions]>>
            ELSE last_update

NextAuth ==
  \/ Login
  \/ GetUserByEmail
  \/ GetAllUsers
  \/ UpdateUserPermissions

SpecAuth == InitAuth /\ [][NextAuth]_vars

\* ----------------------------------- set_user_permissions calls in parallel
\* every session runs in a thread of its own; nothing orders the calls of
\* two sessions, so a call's load and save are steps other calls interleave
InitWriters ==
  /\ AppIdle
  /\ GuardIdle
  /\ SigningIdle
  /\ AuthIdle
  /\ WritersIdle
  /\ LoginIdle

\* whether this storage access fails
StorageFails(fails) ==
  /\ fails => auth_faults < MaxFaults
  /\ auth_faults' = IF fails THEN auth_faults + 1 ELSE auth_faults

\* all_perms = self.load_permissions(); all_perms[email] = permissions
WriterLoad(w) ==
  \E email \in UpdateEmails, permissions \in PermissionLists, fails \in BOOLEAN :
    /\ writers[w].pc = "start"
    /\ StorageFails(fails)
    /\ writers' =
         [writers EXCEPT
            ![w] = [NoCall EXCEPT
                      !.pc = "loaded", !.email = email, !.permissions = permissions,
                      !.all_perms =
                        DictSet(load_permissions(IF fails THEN "load_fails" ELSE "ok"),
                                email, permissions)]]
    /\ UNCHANGED <<permissions_json, has_manager, auth_return, last_update, auth_calls,
                   app, guard, signing, loginvars>>

\* return self.save_permissions(all_perms)
WriterSave(w) ==
  \E fails \in BOOLEAN :
    /\ writers[w].pc = "loaded"
    /\ StorageFails(fails)
    /\ permissions_json' = IF fails THEN permissions_json ELSE writers[w].all_perms
    /\ writers' = [writers EXCEPT ![w].pc = "returned", ![w].ret = ~fails]
    /\ UNCHANGED <<has_manager, auth_return, last_update, auth_calls, app, guard, signing,
                   loginvars>>

NextWriters == \E w \in 1..MaxWriters : WriterLoad(w) \/ WriterSave(w)

SpecWriters == InitWriters /\ [][NextWriters]_vars

\* ------------------------------------------------------------ the login page
\* a counter that stops at MaxCount
Bump(n) == IF n < MaxCount THEN n + 1 ELSE n

\* the flag left unset after the read
CheckedAfterRead_Unset == FALSE

\* st.session_state.cookies_checked = True, after the read and in its handler
CheckedAfterRead == TRUE

InitLogin ==
  /\ AppIdle
  /\ GuardIdle
  /\ SigningIdle
  /\ AuthIdle
  /\ WritersIdle
  /\ cookies \in [auth_email : {<<>>}, remember_email : {<<>>, AnnEmail, BobEmail},
                  remember_password : {<<>>, <<"p", "1">>, <<"p", "2">>}]
  /\ login_form_defaults = <<>>
  /\ cookies_checked = <<>>
  /\ is_logged_in = FALSE
  /\ user_info = <<>>
  /\ login_message = "none"
  /\ page = "new"
  /\ cookie_reads = 0
  /\ cookie_reruns = 0
  /\ page_runs = 0
  /\ submits = 0

\* the form below the cookie check: text inputs, submit button, login
LoginForm(submitted, email, password) ==
  IF ~submitted
  THEN /\ page' = "form"
       /\ login_message' = "none"
       /\ UNCHANGED <<is_logged_in, user_info, cookies>>
  ELSE IF email = <<>> \/ password = <<>>
  THEN /\ page' = "form"
       /\ login_message' = "missing"
       /\ UNCHANGED <<is_logged_in, user_info, cookies>>
  ELSE IF login("ok", email, password).ok
  THEN /\ is_logged_in' = TRUE
       /\ user_info' = login("ok", email, password).user
       /\ cookies' = [auth_email |-> email, remember_email |-> email,
                      remember_password |-> password]
       /\ login_message' = login("ok", email, password).message
       /\ page' = "app"
  ELSE /\ page' = "form"
       /\ login_message' = login("ok", email, password).message
       /\ UNCHANGED <<is_logged_in, user_info, cookies>>

\* one script run of render_login_page; cookie_manager.get answers with the
\* cookie ("ok"), with None because the component has not loaded
\* ("not_loaded"), or raises
render_login_page(submitted, email, password) ==
  LET defaults == IF login_form_defaults = <<>>
                  THEN [email |-> <<>>, password |-> <<>>]
                  ELSE login_form_defaults[1]
      checked == IF login_form_defaults = <<>> THEN FALSE
                 ELSE IF cookies_checked = <<>> THEN FALSE
                 ELSE cookies_checked[1]
  IN /\ page_runs' = (page_runs + 1) % MaxCount
     /\ IF ~checked
        THEN \E outcome \in {"ok", "not_loaded", "raises"} :
               LET saved_email == IF outcome = "ok" THEN cookies.remember_email ELSE <<>>
                   saved_password == IF outcome = "ok" THEN cookies.remember_password ELSE <<>>
               IN /\ cookie_reads' = Bump(cookie_reads)
                  /\ login_form_defaults' =
                       << [email |-> IF saved_email # <<>> THEN saved_email ELSE defaults.email,
                           password |-> IF saved_password # <<>> THEN saved_password
                                        ELSE defaults.password] >>
                  /\ cookies_checked' = <<CheckedAfterRead>>
                  /\ IF saved_email # <<>> \/ saved_password # <<>>
                     THEN /\ cookie_reruns' = Bump(cookie_reruns)
                          /\ page' = "rerun"
                          /\ login_message' = "none"
                          /\ UNCHANGED <<is_logged_in, user_info, cookies>>
                     ELSE /\ LoginForm(submitted, email, password)
                          /\ UNCHANGED cookie_reruns
        ELSE /\ login_form_defaults' = <<defaults>>
             /\ cookies_checked' = <<checked>>
             /\ LoginForm(submitted, email, password)
             /\ UNCHANGED <<cookie_reads, cookie_reruns>>

\* the first run of a session and the run st.rerun() asks for
LoginPageRun ==
  /\ page \in {"new", "rerun"}
  /\ render_login_page(FALSE, <<>>, <<>>)
  /\ UNCHANGED <<submits, app, guard, signing, authvars, writers>>

\* the user fills in the form and presses the button
LoginPageSubmit ==
  \E email \in EmailInputs \cup {<<>>}, password \in PasswordInputs \cup {<<>>} :
    /\ page = "form"
    /\ submits < MaxSubmits
    /\ submits' = submits + 1
    /\ render_login_page(TRUE, email, password)
    /\ UNCHANGED <<app, guard, signing, authvars, writers>>

NextLogin ==
  \/ LoginPageRun
  \/ LoginPageSubmit

\* a run that is due is run
SpecLogin == InitLogin /\ [][NextLogin]_vars /\ WF_vars(LoginPageRun)

\* ================================================================= claims
\* the entries of the results list recorded for task (i, j)
ResultsOf(i, j) == {k \in 1..Len(results) : results[k].doc = i /\ results[k].lang = j}

\* the errors recorded for task (i, j)
ErrorsOf(i, j) == {k \in 1..Len(errors) : errors[k].doc = i /\ errors[k].lang = j}

AllProtected ==
  /\ uploaded_files # <<>>
  /\ \A i \in 1..Len(uploaded_files) : is_drm_protected(uploaded_files[i])

TaskSteps == {"upload", "sign", "translate", "process", "list", "download",
              "delete_target", "delete_source"}

\* C1: a script run with documents uploaded and an empty target-language
\* selection uploads no blob, submits no translation request and leaves the
\* persisted batch-result map as it was.
C1_EmptySelectionRejected ==
  [][target_lang_codes' = <<>> =>
       /\ container' = container
       /\ uploads' = uploads
       /\ requests' = requests
       /\ processing_state' = processing_state
       /\ pc' = "idle"]_vars

\* a run over uploaded documents was rejected for its empty selection while
\* an earlier result was persisted
C1_Witness ==
  /\ notice = "select_language"
  /\ uploaded_files # <<>>
  /\ target_lang_codes = <<>>
  /\ processing_state # <<>>

\* C2: no source blob is uploaded and no translation request is submitted
\* for a document the File Guard classifies as protected; a run over
\* documents that are all protected ends with no blob uploaded and with no
\* success artifact persisted for the batch id.
C2_ProtectedNeverUploaded ==
  [][/\ pc' # "idle" =>
          \A d \in {t.doc : t \in attempted'} \cup {u.doc : u \in uploads' \cup requests'} :
             ~is_drm_protected(uploaded_files'[d])
     /\ (pc # "idle" /\ pc' = "idle" /\ AllProtected) =>
          /\ uploads' = {}
          /\ requests' = {}
          /\ container' = container
          /\ ~(/\ current_batch_id \in DOMAIN processing_state'
               /\ processing_state'[current_batch_id].status = "success")]_vars

\* a run over protected documents only has ended without a result
C2_Witness ==
  /\ pc = "idle"
  /\ notice = "no_results"
  /\ AllProtected
  /\ uploads = {}

\* C3 (as claimed): when the task loop has finished, every task has exactly
\* one entry in the results list and no error, or no entry and an error (a
\* protected document's report counts as the error of each of its tasks).
C3_TasksPartitioned ==
  pc = "finalize" =>
    \A i \in 1..Len(uploaded_files), j \in 1..Len(target_lang_codes) :
      LET failed == ErrorsOf(i, j) # {} \/ i \in drm_reported
      IN \/ Cardinality(ResultsOf(i, j)) = 1 /\ ~failed
         \/ Cardinality(ResultsOf(i, j)) = 0 /\ failed

\* C4: a task whose SDK call raises, whose signing fails or whose
\* translation does not succeed gets an error recorded for it and the loop
\* goes on with the next task in order, so that every task of every
\* unprotected document has been attempted when the loop ends.
C4_TaskFailureIsolated ==
  [][/\ ( /\ pc \in TaskSteps
          /\ \/ faults' > faults /\ status' = status
             \/ pc = "sign" /\ ~secrets.account_key
             \/ pc = "process" /\ status # "Succeeded" ) =>
          /\ pc' = "progress"
          /\ di' = di /\ li' = li
          /\ Len(errors') = Len(errors) + 1
          /\ errors'[Len(errors')].doc = di
          /\ errors'[Len(errors')].lang = li
          /\ results' = results
     /\ pc = "progress" =>
          \/ li < Len(target_lang_codes) /\ pc' = "upload" /\ di' = di /\ li' = li + 1
          \/ li = Len(target_lang_codes) /\ pc' = "document" /\ di' = di + 1
     /\ pc' = "finalize" =>
          \A i \in 1..Len(uploaded_files), j \in 1..Len(target_lang_codes) :
             ~is_drm_protected(uploaded_files[i]) => [doc |-> i, lang |-> j] \in attempted']_vars

\* a task is being attempted after an earlier task of the batch failed
C4_Witness ==
  /\ pc = "sign"
  /\ \E k \in 1..Len(errors) :
       errors[k].doc < di \/ (errors[k].doc = di /\ errors[k].lang < li)

\* C5: when the loop has finished, an empty results list leaves no state for
\* the batch id and shows the failure; one result is stored as its bytes
\* under its finalized filename with is_zip false; two or more are stored as
\* a zip archive with is_zip true.
C5_ArtifactByCount ==
  [][pc = "finalize" =>
       /\ Len(results) = 0 =>
            /\ current_batch_id \notin DOMAIN processing_state'
            /\ notice' = "no_results"
       /\ Len(results) = 1 =>
            /\ current_batch_id \in DOMAIN processing_state'
            /\ processing_state'[current_batch_id] =
                 [status |-> "success", data |-> results[1].data,
                  filename |-> FinalFilename(uploaded_files[results[1].doc].name,
                                             target_lang_codes[results[1].lang]),
                  is_zip |-> FALSE]
       /\ Len(results) >= 2 =>
            /\ current_batch_id \in DOMAIN processing_state'
            /\ processing_state'[current_batch_id].status = "success"
            /\ processing_state'[current_batch_id].is_zip = TRUE
            /\ Len(processing_state'[current_batch_id].data.zip) = Len(results)
            /\ processing_state'[current_batch_id].filename = ZipName]_vars

\* a batch with several succeeded tasks has stored its archive
C5_Witness ==
  /\ pc = "idle"
  /\ notice = "download"
  /\ SuccessStored(current_batch_id)
  /\ processing_state[current_batch_id].is_zip
  /\ Len(processing_state[current_batch_id].data.zip) >= 2

\* C6 (as claimed): the archive of two or more results has one entry per
\* result, and reading the archive by a result's filename returns the bytes
\* recorded for that result.
C6_ZipRoundTrip ==
  [][(pc = "finalize" /\ Len(results) >= 2) =>
       LET z == processing_state'[current_batch_id].data
       IN /\ Len(z.zip) = Len(results)
          /\ \A k \in 1..Len(results) :
               /\ ZipNamelist(z)[k] = results[k].filename
               /\ ZipRead(z, results[k].filename) = results[k].data]_vars

\* C7: the filename of every entry of the results list is the original
\* filename split at its extension, with "_" and the suffix in between: CN
\* for zh-Hans, TW for zh-Hant, else the upper-cased language code.
C7_FinalFilename ==
  \A k \in 1..Len(results) :
    LET name == uploaded_files[results[k].doc].name
        lang == target_lang_codes[results[k].lang]
        suffix == IF lang = ZhHans THEN <<"C", "N">>
                  ELSE IF lang = ZhHant THEN <<"T", "W">>
                  ELSE StrUpper(lang)
    IN \E cut \in 0..Len(name) :
         LET base == SubSeq(name, 1, cut)
             ext == SubSeq(name, cut + 1, Len(name))
         IN /\ IF \E d \in 2..Len(name) : name[d] = "." /\ \E c \in 1..(d - 1) : name[c] # "."
               THEN /\ ext # <<>>
                    /\ ext[1] = "."
                    /\ \A c \in 2..Len(ext) : ext[c] # "."
               ELSE ext = <<>>
            /\ results[k].filename = base \o <<"_">> \o suffix \o ext

\* a.pdf to zh-Hans is recorded as a_CN.pdf, a.b.docx to ko as a.b_KO.docx
C7_Witness ==
  /\ pc = "finalize"
  /\ \E k \in 1..Len(results) :
       /\ uploaded_files[results[k].doc].name = PdfName
       /\ target_lang_codes[results[k].lang] = ZhHans
       /\ results[k].filename = <<"a", "_", "C", "N", ".", "p", "d", "f">>
  /\ \E m \in 1..Len(results) :
       /\ uploaded_files[results[m].doc].name = DocxName
       /\ target_lang_codes[results[m].lang] = Ko
       /\ results[m].filename = <<"a", ".", "b", "_", "K", "O", ".", "d", "o", "c", "x">>

\* C8 (as claimed): when a task that has an entry in the results list is
\* over, its bytes were downloaded and neither its source blob nor any blob
\* whose name starts with its output prefix is in the container.
C8_SucceededLeavesNoBlob ==
  (pc = "progress" /\ ResultsOf(di, li) # {}) =>
    /\ \A k \in ResultsOf(di, li) : results[k].data = blob_data
    /\ input_blob_name \notin BlobNames(container)
    /\ \A n \in BlobNames(container) : ~StartsWith(n, output_prefix)

\* C9 (as claimed): a task that is over without an entry in the results
\* list, or with an error recorded for it, has deleted no blob.
C9_FailedDeletesNothing ==
  (pc = "progress" /\ (ResultsOf(di, li) = {} \/ ErrorsOf(di, li) # {})) =>
    deleted = {}

\* C10 (as claimed): a task whose translation succeeded and whose listing
\* returned no blob is over with an error recorded for it and no entry in
\* the results list.
C10_ResultMissingRecorded ==
  ( /\ pc = "progress"
    /\ success
    /\ output_blobs = <<>>
    /\ \A k \in ErrorsOf(di, li) : errors[k].msg # "list" ) =>
    /\ ErrorsOf(di, li) # {}
    /\ ResultsOf(di, li) = {}

\* the state of task (i, j) in the running batch, read off what the run has
\* recorded for it
TaskState(i, j) ==
  IF ErrorsOf(i, j) # {} \/ i \in drm_reported THEN "failed"
  ELSE IF ResultsOf(i, j) # {} THEN "succeeded"
  ELSE IF \E r \in requests : r.doc = i /\ r.lang = j THEN "translating"
  ELSE IF \E u \in uploads : u.doc = i /\ u.lang = j THEN "uploaded"
  ELSE "pending"

\* the tasks of the batch
Tasks == (1..Len(uploaded_files)) \X (1..Len(target_lang_codes))

TaskTransitions ==
  { <<"pending", "uploaded">>, <<"uploaded", "translating">>,
    <<"translating", "succeeded">>, <<"translating", "failed">> }

\* C11 (as claimed): during a batch run every task changes state only along
\* pending -> uploaded -> translating -> succeeded or failed, one state at a
\* time, and a succeeded or failed task changes state no more.
C11_TaskStateMachine ==
  [][(pc # "idle" /\ pc' # "idle") =>
       \A t \in Tasks :
          \/ TaskState(t[1], t[2])' = TaskState(t[1], t[2])
          \/ <<TaskState(t[1], t[2]), TaskState(t[1], t[2])'>> \in TaskTransitions]_vars

\* the name of the blob the translation service writes for a task
OutputBlobName(t) ==
  OutputPrefix(current_batch_id, target_lang_codes[t[2]], uploaded_files[t[1]].name)

\* C12 (as claimed): in a running batch any two distinct tasks have distinct
\* source blob names and distinct output prefixes, and no task's output
\* prefix is a prefix of another task's output blob name.
C12_NamesDistinct ==
  pc # "idle" =>
    \A t \in Tasks, u \in Tasks :
      t # u =>
        /\ UniqueName(current_batch_id, target_lang_codes[t[2]], uploaded_files[t[1]].name)
             # UniqueName(current_batch_id, target_lang_codes[u[2]], uploaded_files[u[1]].name)
        /\ OutputBlobName(t) # OutputBlobName(u)
        /\ ~StartsWith(OutputBlobName(u), OutputBlobName(t))

RunEnds == pc' = "idle" /\ (pc # "idle" \/ starts' > starts)

Exposed(state) ==
  << [data |-> state.data, file_name |-> state.filename, is_zip |-> state.is_zip] >>

\* a script run in which the start button is not pressed
StartlessRun == pc = "idle" /\ pc' = "idle" /\ starts' = starts

\* C15 (amended): a page rendered for uploaded documents and a non-empty
\* language selection while a success state is persisted for the current
\* batch id exposes that state's bytes, filename and archive flag, and a
\* script run in which the start button is not pressed changes neither the
\* container nor the persisted result map and calls no service.
C15_RerenderExposesArtifact ==
  [][/\ ( /\ pc' = "idle"
          /\ uploaded_files' # <<>>
          /\ target_lang_codes' # <<>>
          /\ SuccessStored(current_batch_id)' ) =>
          download_button' = Exposed(processing_state'[current_batch_id'])
     /\ StartlessRun =>
          /\ processing_state' = processing_state
          /\ container' = container
          /\ uploads' = uploads
          /\ requests' = requests]_vars

\* after a batch stored its artifact the language selection was changed,
\* and the page of that run exposes the stored artifact
C15_Witness ==
  /\ pc = "idle"
  /\ notice = "download"
  /\ edits > 0
  /\ SuccessStored(current_batch_id)
  /\ download_button = Exposed(processing_state[current_batch_id])
  /\ target_lang_codes # <<>>
  /\ download_button[1].data.lang # target_lang_codes[1]

\* C15 (as claimed): every script run in which the start button is not
\* pressed, with a success state persisted for the current batch id, exposes
\* that state's bytes, filename and archive flag and changes nothing.
C15_RerenderAsClaimed ==
  [][( /\ StartlessRun
       /\ current_batch_id' # 0
       /\ SuccessStored(current_batch_id)' ) =>
       /\ download_button' = Exposed(processing_state'[current_batch_id'])
       /\ processing_state' = processing_state
       /\ container' = container
       /\ uploads' = uploads
       /\ requests' = requests]_vars

\* C16: every submission that runs its task loop to the end has attempted
\* every task of every unprotected document, whatever earlier submissions of
\* the batch id did, and the container never holds two blobs of one name: an
\* upload under a name already present replaces that blob.
C16_ResubmitIdempotent ==
  [][/\ pc' = "finalize" =>
          \A t \in Tasks :
             ~is_drm_protected(uploaded_files[t[1]]) => [doc |-> t[1], lang |-> t[2]] \in attempted'
     /\ \A n \in BlobNames(container') : Cardinality({b \in container' : b.name = n}) = 1
     /\ (pc = "upload" /\ pc' = "sign") =>
          /\ Cardinality({b \in container' : b.name = input_blob_name}) = 1
          /\ BlobData(container', input_blob_name) = file_content
          /\ Cardinality(container') =
               Cardinality(container) + (IF input_blob_name \in BlobNames(container) THEN 0 ELSE 1)]_vars

\* the same documents and languages were submitted a second time and the
\* upload replaced the source blob the first submission had left behind
C16_Witness ==
  /\ pc = "sign"
  /\ starts = 2
  /\ edits = 0
  /\ Cardinality(container) = 1
  /\ \E u \in uploads : u.replaced /\ u.name = input_blob_name

\* a step of the inspection of guard_doc that ran has failed
InspectionFailed ==
  \/ guard_doc.attr = "raises"
  \/ /\ guard_read
     /\ \/ guard_doc.read = "raises"
        \/ FileType(guard_doc) = PdfType /\ guard_doc.pdf = "error"
        \/ FileType(guard_doc) \in OfficeTypes /\ guard_doc.zip = "error"

\* C17 (as claimed): a call of the File Guard returns a boolean, and it
\* returns true whenever reading the name, reading the bytes or parsing
\* them has failed.
C17_GuardFailClosed ==
  guard_result # "none" =>
    /\ guard_result \in {"True", "False"}
    /\ InspectionFailed => guard_result = "True"

\* name has the file type t: it is t, or ends with a dot and t, in any case
HasType(name, t) ==
  \/ StrLower(name) = t
  \/ /\ Len(name) > Len(t)
     /\ StrLower(SubSeq(name, Len(name) - Len(t), Len(name))) = <<".">> \o t

\* C18: for a document whose name can be read, the File Guard returns true
\* for a PDF iff reading or parsing it fails or the parse reports it
\* encrypted, for a docx, pptx or xlsx iff its bytes cannot be read, are not
\* a valid zip archive or hold no [Content_Types].xml entry, and for every
\* other file type it returns false without reading the bytes; the file type
\* is the text after the last dot of the name, in any case, or the whole
\* name when it has no dot.
C18_ClassificationByFormat ==
  (guard_result # "none" /\ guard_doc.attr = "ok") =>
    IF HasType(guard_doc.name, <<"p", "d", "f">>)
    THEN /\ guard_read
         /\ guard_result = "True" <=>
              (guard_doc.read = "raises" \/ guard_doc.pdf \in {"error", "encrypted"})
    ELSE IF \E t \in { <<"d", "o", "c", "x">>, <<"p", "p", "t", "x">>, <<"x", "l", "s", "x">> } :
              HasType(guard_doc.name, t)
    THEN /\ guard_read
         /\ guard_result = "True" <=>
              (guard_doc.read = "raises" \/ guard_doc.zip \in {"not_zip", "error", "no_manifest"})
    ELSE /\ guard_result = "False"
         /\ ~guard_read

\* a readable docx that is a zip archive without the manifest entry was
\* classified as protected
C18_Witness ==
  /\ guard_result = "True"
  /\ guard_doc.name = DocxName
  /\ guard_doc.attr = "ok"
  /\ guard_doc.read = "ok"
  /\ guard_doc.zip = "no_manifest"

Before(t, u) == t[1] < u[1] \/ (t[1] = u[1] /\ t[2] < u[2])

\* C20 (as claimed): in a running batch at most one task is uploaded or
\* translating, and when the upload of a task is about to start every task
\* before it in document-then-language order is succeeded or failed.
C20_StrictlySequential ==
  pc # "idle" =>
    /\ Cardinality({t \in Tasks : TaskState(t[1], t[2]) \in {"uploaded", "translating"}}) <= 1
    /\ pc = "upload" =>
         \A t \in Tasks :
            Before(t, <<di, li>>) => TaskState(t[1], t[2]) \in {"succeeded", "failed"}

\* C21: every token produced by generate_sas_url is valid exactly from 15
\* minutes before the call to expiry_hours hours (1 when left out) after it;
\* the token of a blob grants read and nothing else whatever the permission
\* argument is, the token of the container grants exactly read, write, list
\* and delete.
C21_TokenWindowAndScope ==
  (sas_url # <<>> /\ sas_url[1] # SentinelUrl) =>
    LET token == sas_url[1].query[1]
        hours == IF sas_call.expiry_hours = <<>> THEN 1 ELSE sas_call.expiry_hours[1]
    IN /\ Len(sas_url[1].query) = 1
       /\ token.start = sas_call.now - 15
       /\ token.expiry = sas_call.now + 60 * hours
       /\ sas_call.blob_name # <<>> =>
            /\ token.scope = "blob"
            /\ token.permissions = {"read"}
       /\ sas_call.blob_name = <<>> =>
            /\ token.scope = "container"
            /\ token.permissions = {"read", "write", "list", "delete"}
       /\ <<token.permissions>> =
            generate_sas_url(sas_call.account_key, sas_call.blob_name).query

\* a blob token asked for with permission "rwdl" and a lifetime of 2 hours
C21_Witness ==
  /\ sas_url # <<>>
  /\ sas_url[1] # SentinelUrl
  /\ sas_call.blob_name = PdfName
  /\ sas_call.permission = "rwdl"
  /\ sas_call.expiry_hours = <<2>>
  /\ sas_url[1].query[1].permissions = {"read"}

\* C28: during a batch run the progress counter stays between 0 and the task
\* total N*M, every finished task is counted once and every protected
\* document M times (the counter is the number of tasks behind the loop's
\* position), and the counter equals N*M when the task loop has finished.
C28_ProgressCounts ==
  pc \notin {"idle", "provision"} =>
    LET N == Len(uploaded_files)
        M == Len(target_lang_codes)
    IN /\ total_tasks = N * M
       /\ 0 <= completed_tasks /\ completed_tasks <= total_tasks
       /\ pc = "document" => completed_tasks = (di - 1) * M
       /\ pc = "finalize" => completed_tasks = N * M
       /\ pc \notin {"document", "finalize"} => completed_tasks = (di - 1) * M + (li - 1)

\* the loop has finished over a protected document and a translated one, two
\* languages each
C28_Witness ==
  /\ pc = "finalize"
  /\ drm_reported # {}
  /\ results # <<>>
  /\ Len(target_lang_codes) = 2
  /\ completed_tasks = 4

\* the records of the secrets file whose address, trimmed and lower-cased,
\* is the trimmed and lower-cased address
Matching(email) ==
  {i \in 1..Len(Users) : StrLower(Strip(Users[i].email)) = StrLower(Strip(email))}

\* the first of them in iteration order
FirstMatching(email) == CHOOSE i \in Matching(email) : \A k \in Matching(email) : i <= k

\* C22: login(email, password) succeeds iff the first record in iteration
\* order whose trimmed, lower-cased address equals the trimmed, lower-cased
\* input has a password whose string form is the input password; when that
\* record's password differs the wrong-password failure is returned whatever
\* later records hold, when no record matches the unregistered-email failure,
\* and every failure returns no user info.
C22_LoginFirstMatch ==
  auth_return.op = "login" =>
    /\ ~auth_return.ok => auth_return.user = <<>>
    /\ IF Matching(auth_return.email) = {}
       THEN ~auth_return.ok /\ auth_return.message = "unregistered"
       ELSE LET first == Users[FirstMatching(auth_return.email)]
            IN /\ auth_return.ok <=> PyStr(first.password) = auth_return.password
               /\ auth_return.ok =>
                    /\ auth_return.message = "welcome"
                    /\ Len(auth_return.user) = 1
                    /\ auth_return.user[1].id = first.id
               /\ ~auth_return.ok => auth_return.message = "wrong_password"

\* the password of the second record with the address is refused
C22_Witness ==
  /\ auth_return.op = "login"
  /\ auth_return.email = <<" ", "A", "@", "X", " ">>
  /\ auth_return.password = <<"p", "2">>
  /\ auth_return.message = "wrong_password"
  /\ auth_return.user = <<>>

\* the user infos a read call returned, each with the index of its record
Reported ==
  IF auth_return.op = "get_all_users"
  THEN {<<i, auth_return.users[i]>> : i \in 1..Len(auth_return.users)}
  ELSE IF auth_return.op \in {"login", "get_user_by_email"} /\ auth_return.user # <<>>
  THEN {<<FirstMatching(auth_return.email), auth_return.user[1]>>}
  ELSE {}

\* C23: when blob storage is configured and answers, the permissions that
\* login, get_user_by_email and get_all_users report for a user are the
\* permissions stored under the user's address whenever the document holds an
\* entry for it, and the permissions of the secrets file otherwise.
C23_BlobOverridesSecrets ==
  (has_manager /\ auth_return.storage = "ok") =>
    \A r \in Reported :
      LET key == StrLower(Strip(Users[r[1]].email))
      IN r[2].permissions =
           IF \E e \in permissions_json : e.email = key
           THEN (CHOOSE e \in permissions_json : e.email = key).permissions
           ELSE Users[r[1]].permissions

\* C27: after update_user_permissions(email, permissions) has returned
\* success for a registered user, get_user_by_email(email) and a login of
\* that user report exactly those permissions, whatever the spelling of the
\* address and whatever the list, the empty list included (blob storage
\* answering).
C27_UpdateThenRead ==
  (/\ auth_return.op \in {"login", "get_user_by_email"}
   /\ auth_return.storage = "ok"
   /\ last_update # <<>>
   /\ Matching(last_update[1].email) # {}
   /\ StrLower(Strip(auth_return.email)) = StrLower(Strip(last_update[1].email))
   /\ auth_return.op = "login" => auth_return.ok) =>
    /\ Len(auth_return.user) = 1
    /\ auth_return.user[1].permissions = last_update[1].permissions

\* C26: set_user_permissions calls for different addresses that run at the
\* same time, their load and save steps interleaved, all take effect: once
\* all have returned true (blob storage never failing), the stored document
\* holds the new permissions of every one of them.
C26_ConcurrentUpdatesKept ==
  (/\ auth_faults = 0
   /\ \A w \in 1..MaxWriters : writers[w].pc = "returned" /\ writers[w].ret
   /\ \A v, w \in 1..MaxWriters : v # w => writers[v].email # writers[w].email) =>
    \A w \in 1..MaxWriters :
      [email |-> writers[w].email, permissions |-> writers[w].permissions] \in permissions_json

\* C24: within one session the login page reads the remember-me cookies in
\* at most one script run, whether the read succeeds, finds nothing or
\* raises; the rerun asked for after a read that found saved credentials
\* happens at most once, and from some point on no rerun is due: the page
\* does not re-render for ever.
C24_CookiesReadOnce ==
  /\ [](cookie_reads <= 1 /\ cookie_reruns <= 1)
  /\ <>[](page # "rerun")

\* the read found saved credentials, the rerun has run without a second
\* read, and the user has submitted the form since
C24_Witness ==
  /\ cookie_reads = 1
  /\ cookie_reruns = 1
  /\ submits > 0
  /\ cookies_checked = <<TRUE>>
  /\ page = "form"

\* the (document bytes, language) pairs an artifact was translated from
ArtifactSources(b) ==
  IF b.zip = <<>> THEN {<<b.src, b.lang>>}
  ELSE {<<b.zip[k].data.src, b.zip[k].data.lang>> : k \in 1..Len(b.zip)}

\* C25: whenever the page at rest offers the success artifact stored for the
\* current batch id, the artifact was produced from exactly the documents now
\* in the uploader and the languages now selected; an artifact of earlier
\* inputs is never on offer after the documents or the languages changed.
C25_ArtifactOfCurrentInputs ==
  (/\ pc = "idle"
   /\ download_button # <<>>
   /\ SuccessStored(current_batch_id)) =>
    ArtifactSources(processing_state[current_batch_id].data) =
      {<<uploaded_files[i].data.src, target_lang_codes[j]>> :
         i \in 1..Len(uploaded_files), j \in 1..Len(target_lang_codes)}

====
